---- MODULE Spec2Model ----
(***************************************************************************)
(* A model of the dependency-tree engine of src/src/lib.rs (Deptree):      *)
(* the target table, the up/down edge sets, the per-target lifecycle, the  *)
(* root set behind ready(), and the reduction pass simplify().             *)
(*                                                                         *)
(* Handles are the source's TargetIndex values, 0-based; the record of     *)
(* handle h is targets[h + 1].  A HashSet is iterated in an order the      *)
(* program does not control, so every loop over a set is modelled by all   *)
(* of its iteration orders.  Vec<bool> markers (seen, below) are modelled  *)
(* by the set of indices they hold true.                                   *)
(***************************************************************************)
EXTENDS Integers, Sequences, FiniteSets, TLC

VARIABLES targets, roots, leaves, running, simple, result

vars == <<targets, roots, leaves, running, simple, result>>

\* Bounds of the model: how many targets are added, how many distinct edges.
MaxTargets == 4
MaxEdges == 4

\* The names handed to add_target, by position of the call.
Names == <<"a", "b", "c", "d", "e", "f", "g", "h">>

TargetState == {"Unstarted", "Started", "Failed", "Finished"}

\* TargetData::new
TargetData_new(name) ==
    [name |-> name, state |-> "Unstarted", up |-> {}, down |-> {}]

\* The handles in use: 0 .. targets.len() - 1.
Handles == 0 .. (Len(targets) - 1)

\* DeptreeError variants carry the name of the offending target.
Err(variant, name) == <<variant, name>>
Ok == <<"Ok">>

\* Deptree::new
Init ==
    /\ targets = <<>>
    /\ roots = {}
    /\ leaves = {}
    /\ running = 0
    /\ simple = TRUE
    /\ result = [op |-> "new", target |-> -1, ret |-> Ok]

(***************************************************************************)
(* Graph helpers used by the guards (the engine assumes an acyclic input). *)
(***************************************************************************)
UpEdges(tg) == {<<h, d>> \in (0 .. Len(tg) - 1) \X (0 .. Len(tg) - 1) : d \in tg[h + 1].up}

RECURSIVE UpClosure(_, _)
UpClosure(tg, S) ==
    LET N == S \cup UNION {tg[h + 1].up : h \in S}
    IN IF N = S THEN S ELSE UpClosure(tg, N)

\* depend(one, two) keeps the graph acyclic: two does not depend on one.
KeepsAcyclic(one, two) == one # two /\ one \notin UpClosure(targets, {two})

(***************************************************************************)
(* add_target / add_target_attribs                                         *)
(***************************************************************************)
AddTarget ==
    /\ Len(targets) < MaxTargets
    /\ LET index == (Len(targets) + 1) - 1
       IN /\ targets' = Append(targets, TargetData_new(Names[index + 1]))
          /\ roots' = roots \cup {index}
          /\ leaves' = leaves \cup {index}
          /\ simple' = FALSE
          /\ result' = [op |-> "add_target", target |-> index, ret |-> Ok]
    /\ UNCHANGED running

(***************************************************************************)
(* depend                                                                  *)
(***************************************************************************)
\* depend that leaves the dependent in the root set.
DependKeepsRoot(one, two) ==
    /\ two \in targets[one + 1].up \/ Cardinality(UpEdges(targets)) < MaxEdges
    /\ targets' = [targets EXCEPT ![one + 1].up = @ \cup {two},
                                  ![two + 1].down = @ \cup {one}]
    /\ leaves' = leaves \ {two}
    /\ simple' = FALSE
    /\ result' = [op |-> "depend", target |-> one, ret |-> Ok]
    /\ UNCHANGED <<roots, running>>

Depend(one, two) ==
    /\ two \in targets[one + 1].up \/ Cardinality(UpEdges(targets)) < MaxEdges
    /\ targets' = [targets EXCEPT ![one + 1].up = @ \cup {two},
                                  ![two + 1].down = @ \cup {one}]
    /\ roots' = roots \ {one}
    /\ leaves' = leaves \ {two}
    /\ simple' = FALSE
    /\ result' = [op |-> "depend", target |-> one, ret |-> Ok]
    /\ UNCHANGED running

(***************************************************************************)
(* ready: the lists the loop over the root set can return.                 *)
(***************************************************************************)
\* ready without the filter on the state: every root is pushed.
RECURSIVE ready_loop_unfiltered(_, _, _, _)
ready_loop_unfiltered(tg, rts, rem, res) ==
    IF rem = {} THEN {res}
    ELSE UNION {ready_loop_unfiltered(tg, rts, rem \ {i}, Append(res, i)) : i \in rem}

RECURSIVE ready_loop(_, _, _, _)
ready_loop(tg, rts, rem, res) ==
    IF rem = {} THEN {res}
    ELSE UNION {ready_loop(tg, rts, rem \ {i},
                           IF tg[i + 1].state = "Unstarted"
                           THEN Append(res, i) ELSE res) : i \in rem}

ready(tg, rts) == ready_loop(tg, rts, rts, <<>>)

Range(s) == {s[i] : i \in 1 .. Len(s)}

\* The handles some call of ready() in the current state returns.
Ready == UNION {Range(l) : l \in ready(targets, roots)}

(***************************************************************************)
(* start: the arm of the match on data.state, "Ok" or the error variant.   *)
(***************************************************************************)
\* start with the Failed and Finished arms exchanged.
start_arm_swapped(st) ==
    CASE st = "Started" -> "AlreadyStarted"
      [] st = "Failed" -> "StartedFinished"
      [] st = "Finished" -> "StartedFailed"
      [] st = "Unstarted" -> "Ok"

start_arm(st) ==
    CASE st = "Started" -> "AlreadyStarted"
      [] st = "Failed" -> "StartedFailed"
      [] st = "Finished" -> "StartedFinished"
      [] st = "Unstarted" -> "Ok"

\* start that takes the target out of the root set.
StartLeavesRoots(target) ==
    LET data == targets[target + 1]
        arm == start_arm(data.state)
    IN /\ IF arm = "Ok"
          THEN /\ targets' = [targets EXCEPT ![target + 1].state = "Started"]
               /\ running' = running + 1
               /\ roots' = roots \ {target}
               /\ result' = [op |-> "start", target |-> target, ret |-> Ok]
          ELSE /\ result' = [op |-> "start", target |-> target,
                             ret |-> Err(arm, data.name)]
               /\ UNCHANGED <<targets, running, roots>>
       /\ UNCHANGED <<leaves, simple>>

Start(target) ==
    LET data == targets[target + 1]
        arm == start_arm(data.state)
    IN /\ IF arm = "Ok"
          THEN /\ targets' = [targets EXCEPT ![target + 1].state = "Started"]
               /\ running' = running + 1
               /\ result' = [op |-> "start", target |-> target, ret |-> Ok]
          ELSE /\ result' = [op |-> "start", target |-> target,
                             ret |-> Err(arm, data.name)]
               /\ UNCHANGED <<targets, running>>
       /\ UNCHANGED <<roots, leaves, simple>>

(***************************************************************************)
(* simplify_impl and simplify: every outcome over the iteration orders.    *)
(***************************************************************************)
RECURSIVE simplify_impl(_, _, _), simplify_impl_loop(_, _, _, _)
\* The first loop of simplify_impl over the cloned down-set: rem is what is
\* still to be iterated, below the union of the branches' results so far.
simplify_impl_loop(tg, seen, rem, below) ==
    IF rem = {} THEN {[targets |-> tg, seen |-> seen, below |-> below]}
    ELSE UNION {
           IF dependent \notin seen
           THEN UNION {simplify_impl_loop(o.targets, o.seen, rem \ {dependent},
                                          below \cup o.below)
                       : o \in simplify_impl(tg, seen, dependent)}
           ELSE simplify_impl_loop(tg, seen, rem \ {dependent}, below)
           : dependent \in rem}

\* simplify_impl that folds the direct dependents into below before the retain.
simplify_impl_fold_first(tg, seen, target) ==
    LET down == tg[target + 1].down
    IN {[targets |-> [o.targets EXCEPT ![target + 1].down =
                          {d \in @ : d \notin (o.below \cup down)}],
         seen |-> o.seen,
         below |-> o.below \cup down]
        : o \in simplify_impl_loop(tg, seen \cup {target}, down, {})}

simplify_impl(tg, seen, target) ==
    LET down == tg[target + 1].down
    IN {[targets |-> [o.targets EXCEPT ![target + 1].down = {d \in @ : d \notin o.below}],
         seen |-> o.seen,
         below |-> o.below \cup down]
        : o \in simplify_impl_loop(tg, seen \cup {target}, down, {})}

RECURSIVE simplify_roots(_, _, _)
\* The loop of simplify over the cloned root set.
simplify_roots(tg, seen, rem) ==
    IF rem = {} THEN {tg}
    ELSE UNION {UNION {simplify_roots(o.targets, o.seen, rem \ {root})
                       : o \in simplify_impl(tg, seen, root)}
                : root \in rem}

\* simplify without the early return on a clean graph.
simplify_always(tg, rts, smp) == simplify_roots(tg, {}, rts)

\* The target tables simplify() can leave behind.
simplify(tg, rts, smp) ==
    IF smp THEN {tg} ELSE simplify_roots(tg, {}, rts)

Simplify ==
    /\ targets' \in simplify(targets, roots, simple)
    /\ simple' = TRUE
    /\ result' = [op |-> "simplify", target |-> -1, ret |-> Ok]
    /\ UNCHANGED <<roots, leaves, running>>

(***************************************************************************)
(* finish: the reduction pass first, then the match on data.state.         *)
(***************************************************************************)
\* finish that also accepts an Unstarted target.
finish_arm_unstarted(st) ==
    CASE st = "Unstarted" -> "Ok"
      [] st = "Finished" -> "AlreadyFinished"
      [] st = "Failed" -> "FinishFailed"
      [] st = "Started" -> "Ok"

finish_arm(st) ==
    CASE st = "Unstarted" -> "NotYetStarted"
      [] st = "Finished" -> "AlreadyFinished"
      [] st = "Failed" -> "FinishFailed"
      [] st = "Started" -> "Ok"

\* finish that forgets to insert the dependents.
finish_roots_silent(rts, down, target) == rts \ {target}

\* finish that inserts the dependents but leaves the target in the root set.
finish_roots_keep(rts, down, target) == rts \cup down

\* The root set after a successful finish: every member of the down-set is
\* inserted, then the target is removed.
finish_roots(rts, down, target) == (rts \cup down) \ {target}

Finish(target) ==
    \E tg \in simplify(targets, roots, simple) :
      LET data == tg[target + 1]
          arm == finish_arm(data.state)
      IN /\ simple' = TRUE
         /\ IF arm = "Ok"
            THEN /\ targets' = [tg EXCEPT ![target + 1].state = "Finished"]
                 /\ roots' = finish_roots(roots, data.down, target)
                 /\ running' = running - 1
                 /\ result' = [op |-> "finish", target |-> target, ret |-> Ok]
            ELSE /\ result' = [op |-> "finish", target |-> target,
                               ret |-> Err(arm, data.name)]
                 /\ targets' = tg
                 /\ UNCHANGED <<roots, running>>
         /\ UNCHANGED leaves

(***************************************************************************)
(* fail                                                                    *)
(***************************************************************************)
\* fail that also accepts an Unstarted target.
fail_arm_unstarted(st) ==
    CASE st = "Unstarted" -> "Ok"
      [] st = "Finished" -> "FinishFailed"
      [] st = "Failed" -> "AlreadyFailed"
      [] st = "Started" -> "Ok"

fail_arm(st) ==
    CASE st = "Unstarted" -> "UnstartedFailed"
      [] st = "Finished" -> "FinishFailed"
      [] st = "Failed" -> "AlreadyFailed"
      [] st = "Started" -> "Ok"

\* fail that notifies the dependents the way finish does.
FailNotifies(target) ==
    LET data == targets[target + 1]
        arm == fail_arm(data.state)
    IN /\ IF arm = "Ok"
          THEN /\ targets' = [targets EXCEPT ![target + 1].state = "Failed"]
               /\ running' = running - 1
               /\ roots' = (roots \cup data.down) \ {target}
               /\ result' = [op |-> "fail", target |-> target, ret |-> Ok]
          ELSE /\ result' = [op |-> "fail", target |-> target,
                             ret |-> Err(arm, data.name)]
               /\ UNCHANGED <<targets, roots, running>>
       /\ UNCHANGED <<leaves, simple>>

\* fail with the removal from the root set moved out of the match.
FailRemovesAlways(target) ==
    LET data == targets[target + 1]
        arm == fail_arm(data.state)
    IN /\ IF arm = "Ok"
          THEN /\ targets' = [targets EXCEPT ![target + 1].state = "Failed"]
               /\ running' = running - 1
               /\ result' = [op |-> "fail", target |-> target, ret |-> Ok]
          ELSE /\ result' = [op |-> "fail", target |-> target,
                             ret |-> Err(arm, data.name)]
               /\ UNCHANGED <<targets, running>>
       /\ roots' = roots \ {target}
       /\ UNCHANGED <<leaves, simple>>

Fail(target) ==
    LET data == targets[target + 1]
        arm == fail_arm(data.state)
    IN /\ IF arm = "Ok"
          THEN /\ targets' = [targets EXCEPT ![target + 1].state = "Failed"]
               /\ running' = running - 1
               /\ roots' = roots \ {target}
               /\ result' = [op |-> "fail", target |-> target, ret |-> Ok]
          ELSE /\ result' = [op |-> "fail", target |-> target,
                             ret |-> Err(arm, data.name)]
               /\ UNCHANGED <<targets, roots, running>>
       /\ UNCHANGED <<leaves, simple>>

(***************************************************************************)
(* depended_by / depends_on: the lists the loop over the set can return.   *)
(***************************************************************************)
RECURSIVE index_list(_, _)
\* Pushing every member of a set onto a list, in any iteration order.
index_list(rem, res) ==
    IF rem = {} THEN {res}
    ELSE UNION {index_list(rem \ {i}, Append(res, i)) : i \in rem}

depended_by(tg, target) == index_list(tg[target + 1].down, <<>>)

depends_on(tg, target) == index_list(tg[target + 1].up, <<>>)

\* done
done == running = 0 /\ roots = {}

\* The lifecycle state of a handle.
StateOf(h) == targets[h + 1].state

\* No target has left Unstarted: the graph is still being built.
Building == \A h \in Handles : StateOf(h) = "Unstarted"

(***************************************************************************)
(* Spec: any sequence of calls.  The edges offered to depend make the      *)
(* dependency the older handle (two < one), which keeps the graph acyclic. *)
(***************************************************************************)
Next ==
    \/ AddTarget
    \/ \E one \in Handles : \E two \in 0 .. (one - 1) : Depend(one, two)
    \/ \E target \in Handles : Start(target)
    \/ \E target \in Handles : Finish(target)
    \/ \E target \in Handles : Fail(target)
    \/ Simplify

Spec == Init /\ [][Next]_vars

(***************************************************************************)
(* SpecSched: as Spec, with a scheduler that starts only handles that      *)
(* ready() returns.                                                        *)
(***************************************************************************)
NextSched ==
    \/ AddTarget
    \/ \E one \in Handles : \E two \in 0 .. (one - 1) : Depend(one, two)
    \/ \E target \in Ready : Start(target)
    \/ \E target \in Handles : Finish(target)
    \/ \E target \in Handles : Fail(target)
    \/ Simplify

SpecSched == Init /\ [][NextSched]_vars

(***************************************************************************)
(* SpecBuilt: the graph is fully built (add_target, depend) before the     *)
(* first start, and the scheduler starts only handles that ready() returns.*)
(***************************************************************************)
NextBuilt ==
    \/ Building /\ AddTarget
    \/ Building /\ \E one \in Handles : \E two \in 0 .. (one - 1) : Depend(one, two)
    \/ \E target \in Ready : Start(target)
    \/ \E target \in Handles : Finish(target)
    \/ \E target \in Handles : Fail(target)
    \/ Simplify

SpecBuilt == Init /\ [][NextBuilt]_vars

(***************************************************************************)
(* SpecRun: a run without failure under a fair scheduler: the graph is     *)
(* built before the first start, fail is never called, every handle that   *)
(* ready() keeps returning is eventually started and every Started target  *)
(* is eventually finished.                                                 *)
(***************************************************************************)
SchedStart(target) == target \in Ready /\ Start(target)

SchedFinish(target) ==
    target \in Handles /\ StateOf(target) = "Started" /\ Finish(target)

NextRun ==
    \/ Building /\ AddTarget
    \/ Building /\ \E one \in Handles : \E two \in 0 .. (one - 1) : Depend(one, two)
    \/ \E target \in Handles : SchedStart(target)
    \/ \E target \in Handles : Finish(target)
    \/ Simplify

SpecRun ==
    /\ Init /\ [][NextRun]_vars
    /\ \A target \in 0 .. (MaxTargets - 1) :
          WF_vars(SchedStart(target)) /\ WF_vars(SchedFinish(target))

(***************************************************************************)
(* SpecGraph: graph construction and reduction only, over every acyclic    *)
(* graph: depend(one, two) is offered whenever two does not depend on one. *)
(***************************************************************************)
NextGraph ==
    \/ AddTarget
    \/ \E one \in Handles : \E two \in Handles :
          KeepsAcyclic(one, two) /\ Depend(one, two)
    \/ Simplify

SpecGraph == Init /\ [][NextGraph]_vars

(***************************************************************************)
(* Properties.                                                             *)
(***************************************************************************)
Started == {h \in Handles : StateOf(h) = "Started"}
AllFinished == \A h \in Handles : StateOf(h) = "Finished"
NoneFailed == \A h \in Handles : StateOf(h) # "Failed"

\* C1 (SpecSched): ready() never returns a target that has a direct
\* dependency (an edge inserted by depend, kept in the up-set) whose state is
\* not Finished.
C1_ReadyOnlyAfterDependencies ==
    \A l \in ready(targets, roots) : \A t \in Range(l) :
        \A d \in targets[t + 1].up : StateOf(d) = "Finished"

\* C2 (Spec): in every step each target's state stays as it is or moves
\* Unstarted -> Started, Started -> Finished or Started -> Failed; it never
\* moves backwards, never skips Started and never leaves Finished or Failed.
C2_LifecycleOrder ==
    [][\A h \in Handles :
          \/ targets'[h + 1].state = targets[h + 1].state
          \/ targets[h + 1].state = "Unstarted" /\ targets'[h + 1].state = "Started"
          \/ targets[h + 1].state = "Started"
               /\ targets'[h + 1].state \in {"Finished", "Failed"}]_vars

\* C2 witness: one target has reached Finished and another Failed.
C2_Witness ==
    \E h \in Handles : \E g \in Handles :
        StateOf(h) = "Finished" /\ StateOf(g) = "Failed"

\* C3 (Spec): the running counter equals the number of targets whose state
\* is Started; a decrement applied at 0 would leave it below that number.
C3_RunningCountsStarted == running = Cardinality(Started)

\* C3 witness: a finish or fail has just decremented the counter while
\* another target is still Started.
C3_Witness ==
    /\ result.op \in {"finish", "fail"} /\ result.ret = Ok
    /\ running > 0

\* The error table of the claim: operation and current state to outcome.
C4_Expected(op, st) ==
    CASE op = "start" /\ st = "Unstarted" -> "Ok"
      [] op = "start" /\ st = "Started" -> "AlreadyStarted"
      [] op = "start" /\ st = "Failed" -> "StartedFailed"
      [] op = "start" /\ st = "Finished" -> "StartedFinished"
      [] op = "finish" /\ st = "Started" -> "Ok"
      [] op = "finish" /\ st = "Unstarted" -> "NotYetStarted"
      [] op = "finish" /\ st = "Finished" -> "AlreadyFinished"
      [] op = "finish" /\ st = "Failed" -> "FinishFailed"
      [] op = "fail" /\ st = "Started" -> "Ok"
      [] op = "fail" /\ st = "Unstarted" -> "UnstartedFailed"
      [] op = "fail" /\ st = "Finished" -> "FinishFailed"
      [] op = "fail" /\ st = "Failed" -> "AlreadyFailed"

\* C4 (Spec): a start, finish or fail call returns Ok exactly when the target
\* is in the legal source state, and otherwise the error the table gives for
\* the operation and the state the target had when the call was made.
C4_ErrorTable ==
    [][result'.op \in {"start", "finish", "fail"} =>
          result'.ret[1] = C4_Expected(result'.op, targets[result'.target + 1].state)]_vars

\* C4 witness: a fail call on a Finished target has returned FinishFailed.
C4_Witness == result.op = "fail" /\ result.ret[1] = "FinishFailed"

\* C5 (Spec): every list ready() can return holds exactly the handles of the
\* root set whose state is Unstarted, and no handle in another state.
C5_ReadyIsUnstartedRoots ==
    \A l \in ready(targets, roots) :
        /\ Range(l) = {h \in roots : StateOf(h) = "Unstarted"}
        /\ \A i \in 1 .. Len(l) : StateOf(l[i]) = "Unstarted"

\* C5 witness: the root set holds a Started handle next to an Unstarted one.
C5_Witness ==
    \E h \in roots : \E g \in roots :
        StateOf(h) = "Started" /\ StateOf(g) = "Unstarted" /\ g \in Ready

\* C6 (SpecBuilt): with the graph built before the first start, only ready
\* handles started and no target failed, done() is true in the state where
\* every target is Finished.
C6_AllFinishedIsDone ==
    (Len(targets) > 0 /\ AllFinished) => done

\* C7 (SpecBuilt): with the graph built before the first start, only ready
\* handles started and no target failed, done() is false in every state in
\* which at least one target is not yet Finished.
C7_NotDoneWhileUnfinished ==
    (NoneFailed /\ ~AllFinished) => ~done

\* C7 witness: between two tasks of a run without failure: a target is
\* Finished, another is still Unstarted and nothing is running.
C7_Witness ==
    /\ NoneFailed /\ running = 0
    /\ \E h \in Handles : \E g \in Handles :
          StateOf(h) = "Finished" /\ StateOf(g) = "Unstarted" /\ h \in targets[g + 1].up

\* C8 (SpecBuilt; the graph is complete before anything starts or fails): a
\* direct dependent of a Failed target that ready() does not return is not
\* returned by ready() after any further call either.
C8_DependentsOfFailedStayUnready ==
    [][\A d \in Handles :
          ((\E h \in targets[d + 1].up : StateOf(h) = "Failed") /\ d \notin Ready)
             => d \notin Ready']_vars

\* C9 (Spec): a successful start of the last handle ready() returns leaves
\* ready() empty, and an empty ready() becomes non-empty only by an
\* add_target call or a successful finish: never by a start, a fail, a
\* depend, a simplify or a rejected call.
C9_ReadyEmptyUntilFinish ==
    [][/\ (result'.op = "start" /\ result'.ret = Ok /\ Ready \subseteq {result'.target})
            => Ready' = {}
       /\ (Ready = {} /\ Ready' # {})
            => \/ result'.op = "add_target"
               \/ result'.op = "finish" /\ result'.ret = Ok]_vars

\* C9 witness: every ready handle has been started, ready() is empty, and an
\* Unstarted dependent is waiting for a finish.
C9_Witness ==
    /\ result.op = "start" /\ result.ret = Ok
    /\ Ready = {}
    /\ \E g \in Handles : StateOf(g) = "Unstarted"

\* The targets reachable from the set S along down-edges, S included.
RECURSIVE DownClosure(_, _)
DownClosure(tg, S) ==
    LET N == S \cup UNION {tg[h + 1].down : h \in S}
    IN IF N = S THEN S ELSE DownClosure(tg, N)

\* d is reachable from t by a path of two or more down-edges.
LongerPath(tg, t, d) ==
    \E m \in tg[t + 1].down : d \in DownClosure(tg, tg[m + 1].down)

\* C10 (SpecGraph): after simplify() has run from the initial roots, no
\* target reachable from a root keeps a direct dependent that it also
\* reaches through a path of two or more down-edges.
C10_DownSetsAreReduced ==
    simple =>
        \A t \in DownClosure(targets, roots) :
            \A d \in targets[t + 1].down : ~LongerPath(targets, t, d)

\* C11 (SpecGraph): after a reduction pass depends_on and depended_by report
\* the same edge set: d is in depends_on(t) exactly when t is in
\* depended_by(d).
C11_UpAndDownAgree ==
    simple =>
        \A t \in Handles : \A d \in Handles :
            (\E l \in depends_on(targets, t) : d \in Range(l))
                <=> (\E l \in depended_by(targets, d) : t \in Range(l))

\* C12 (Spec): a simplify() call on a clean graph (simple = TRUE) leaves
\* every up-set and down-set as it was; every add_target and every depend
\* call leaves the graph dirty, and every simplify() call leaves it clean.
C12_SimplifyNoOpWhenClean ==
    [][/\ (result'.op = "simplify" /\ simple) => targets' = targets
       /\ result'.op \in {"add_target", "depend"} => ~simple'
       /\ result'.op = "simplify" => simple']_vars

\* C12 witness: simplify() has run and pruned an edge, and the graph is
\* clean, so a second call meets the early return.
C12_Witness ==
    /\ result.op = "simplify" /\ simple
    /\ \E t \in Handles : \E d \in targets[t + 1].up : t \notin targets[d + 1].down

\* C13 (SpecGraph): a depend(x, y) call for a pair an earlier depend(x, y)
\* inserted (the call leaves every up-set as it was, since up-sets are never
\* pruned) leaves every down-set unchanged as well.
C13_DuplicateDependIdempotent ==
    [][(/\ result'.op = "depend"
        /\ \A h \in Handles : targets'[h + 1].up = targets[h + 1].up)
          => \A h \in Handles : targets'[h + 1].down = targets[h + 1].down]_vars

\* The targets no depend call has given a dependency.
NoDependency == {h \in Handles : targets[h + 1].up = {}}

\* C14 (Spec): before the first successful finish or fail (no target is
\* Finished or Failed) the root set is the set of targets whose up-set is
\* empty, and before anything is started ready() returns exactly these.
C14_RootsAreSources ==
    /\ (\A h \in Handles : StateOf(h) \in {"Unstarted", "Started"})
          => roots = NoDependency
    /\ Building => \A l \in ready(targets, roots) : Range(l) = NoDependency

\* C14 witness: a depend call has taken its dependent out of the root set,
\* another target is a root, one target is Started, none is Finished or Failed.
C14_Witness ==
    /\ \A h \in Handles : StateOf(h) \in {"Unstarted", "Started"}
    /\ \E h \in Handles : StateOf(h) = "Started"
    /\ roots # {} /\ roots # Handles

\* C15 (Spec): a finish(h) call first runs the reduction pass if the graph is
\* dirty (the edge sets it leaves are an outcome of the pass, and the graph
\* is clean afterwards); when it succeeds the new root set is exactly the old
\* root set plus the down-set of h as reduced, minus h.
C15_FinishRoots ==
    [][result'.op = "finish" =>
          LET h == result'.target
              reduced == [targets' EXCEPT ![h + 1].state = targets[h + 1].state]
          IN /\ simple'
             /\ IF simple THEN reduced = targets
                ELSE reduced \in simplify_roots(targets, {}, roots)
             /\ result'.ret = Ok =>
                   roots' = (roots \cup targets'[h + 1].down) \ {h}]_vars

\* C15 witness: a successful finish on a dirty graph has pruned an edge and
\* put a dependent into the root set.
C15_Witness ==
    /\ result.op = "finish" /\ result.ret = Ok
    /\ \E d \in targets[result.target + 1].down : d \in roots
    /\ \E t \in Handles : \E d \in targets[t + 1].up : t \notin targets[d + 1].down

\* C16 (Spec): a successful start(h) changes only the state of h (to Started)
\* and the running counter (+1); the root set, every up-set and down-set, the
\* dirty flag and every other target are unchanged.  A handle leaves the root
\* set only by a successful finish or fail of that handle or by a depend call
\* with it as the dependent.
C16_StartFrame ==
    [][/\ (result'.op = "start" /\ result'.ret = Ok) =>
             /\ targets' = [targets EXCEPT ![result'.target + 1].state = "Started"]
             /\ running' = running + 1
             /\ roots' = roots /\ leaves' = leaves /\ simple' = simple
       /\ \A h \in roots \ roots' :
             /\ result'.target = h
             /\ \/ result'.op \in {"finish", "fail"} /\ result'.ret = Ok
                \/ result'.op = "depend"]_vars

\* C16 witness: a started target is still in the root set after its start.
C16_Witness ==
    /\ result.op = "start" /\ result.ret = Ok
    /\ result.target \in roots
    /\ StateOf(result.target) = "Started"

\* C17 (SpecGraph): the reduction pass removes no needed edge: after
\* simplify() every target reaches along down-edges exactly the targets it
\* reached before, and every removed down-edge t -> d still has a path of two
\* or more remaining down-edges from t to d.
C17_ReductionKeepsReachability ==
    [][result'.op \in {"simplify", "finish"} =>
          \A t \in Handles :
              /\ DownClosure(targets', {t}) = DownClosure(targets, {t})
              /\ \A d \in targets[t + 1].down \ targets'[t + 1].down :
                    LongerPath(targets', t, d)]_vars

\* C17 witness: simplify() has removed a down-edge of an inserted pair.
C17_Witness ==
    /\ result.op = "simplify" /\ simple
    /\ \E d \in Handles : \E t \in targets[d + 1].up :
          d \notin targets[t + 1].down /\ LongerPath(targets, t, d)

\* C18 (SpecRun): without failures and under a fair scheduler every target
\* that has been added eventually reaches Finished.
C18_EveryTargetFinishes ==
    \A h \in 0 .. (MaxTargets - 1) :
        (h \in Handles) ~> (h \in Handles /\ StateOf(h) = "Finished")

\* C18 witness: a run over a graph with a shared dependent has finished
\* every target.
C18_Witness ==
    /\ Len(targets) >= 3 /\ AllFinished
    /\ \E d \in Handles : Cardinality(targets[d + 1].up) >= 2

\* C19 (SpecBuilt, a run on an acyclic graph built before the first start in
\* which only handles returned by ready() are started): the root set holds no
\* target whose state is Finished or Failed.
C19_NoTerminalRoots ==
    \A h \in roots : StateOf(h) \notin {"Finished", "Failed"}

\* The lifecycle states of all targets, in handle order.
States(tg) == [i \in 1 .. Len(tg) |-> tg[i].state]
UpSets(tg) == [i \in 1 .. Len(tg) |-> tg[i].up]
DownSets(tg) == [i \in 1 .. Len(tg) |-> tg[i].down]

\* C20 (Spec): a start, finish or fail call that returns an error leaves
\* every target's state, the root set and the running counter unchanged; a
\* rejected start or fail also leaves every up-set, every down-set and the
\* dirty flag unchanged, and a rejected finish leaves every up-set unchanged.
C20_RejectedCallFrame ==
    [][(result'.op \in {"start", "finish", "fail"} /\ result'.ret # Ok) =>
          /\ States(targets') = States(targets)
          /\ roots' = roots /\ running' = running
          /\ UpSets(targets') = UpSets(targets)
          /\ result'.op \in {"start", "fail"} =>
                DownSets(targets') = DownSets(targets) /\ simple' = simple]_vars

\* C20 witness: a rejected fail on an Unstarted root next to a running target.
C20_Witness ==
    /\ result.op = "fail" /\ result.ret[1] = "UnstartedFailed"
    /\ result.target \in roots /\ running > 0 /\ ~simple

====
